---- MODULE Spec2Model ----
(***************************************************************************)
(* Verification model of python_cheatsheet_lib.                            *)
(*                                                                         *)
(* The library is a catalogue of independent example modules, so the model *)
(* is a family of independent state machines that share one module:        *)
(*   SpecSingleton  oop/patterns/creational/singleton.py                   *)
(*   SpecPool       oop/patterns/creational/object_pool.py                 *)
(*   SpecRunner     core/runner.py                                         *)
(*   SpecCounter    python_313/free_threaded_interpreter.py                *)
(*   SpecLazy       metaprogramming/descriptors.py: LazyProperty           *)
(*   SpecValidated  metaprogramming/descriptors.py: TypedProperty,         *)
(*                  RangeValidated                                         *)
(*   SpecLogger     oop/patterns/creational/factory_method.py:             *)
(*                  create_logger                                          *)
(*   SpecSerializer oop/patterns/creational/factory_method.py: Serializer  *)
(*   SpecVending    oop/patterns/behavioral/state.py: VendingMachine       *)
(*   SpecTcp        oop/patterns/behavioral/state.py: TCPConnection        *)
(*   SpecCommand    oop/patterns/behavioral/command.py                     *)
(* Each specification moves its own variables and leaves the others alone. *)
(***************************************************************************)
EXTENDS Integers, Sequences, FiniteSets

(***************************************************************************)
(* Bounds of the model.                                                    *)
(***************************************************************************)
NumCallers == 2
MaxCallsPerCaller == 2
NumHosts == 2
NumPoolThreads == 2
MaxPoolSize == 2
MaxTime == 4
MaxArgLen == 3
NumWorkers == 2
Iterations == 2
MaxReads == 4
MaxLoggers == 3
MaxSubclasses == 1
MaxCreates == 2
MaxVendingCalls == 5
MaxTcpCalls == 4
MaxCommands == 2
MaxHistory == 3
MaxTextLen == 2

VARIABLES
    \* ---- singleton.py ----
    _instances,     \* SingletonMeta._instances[DatabaseConnection]; 0 = key absent
    singleton_lock, \* SingletonMeta._lock; 0 = free, else the holding thread
    sObjs,          \* heap of DatabaseConnection objects, in allocation order
    sPc,            \* per thread: position inside SingletonMeta.__call__
    sArg,           \* per thread: the host argument of the call in progress
    sLocal,         \* per thread: the local variable `instance`
    sRet,           \* per thread: what its latest finished call was given and returned
    sDone,          \* per thread: how many calls it has finished
    \* ---- object_pool.py ----
    _max_size,      \* ObjectPool._max_size
    _timeout,       \* ObjectPool._timeout: "None" or "finite" (a number >= 0)
    _pool,          \* ObjectPool._pool: the queue of idle PooledObject wrappers
    pool_lock,      \* ObjectPool._lock; 0 = free, else the holding thread
    _created_count, \* ObjectPool._created_count
    pFactoryCalls,  \* how many times self._factory() has been called
    pClock,         \* time.time(): one tick per call of acquire, get_object or release
    pPc,            \* per thread: position inside acquire / get_object
    pCtx,           \* per thread: "with" inside `with pool.get_object()`, else "none"
    pObj,           \* per thread: the object bound by the with statement
    pExc,           \* per thread: the exception its last operation raised, or "none"
    pHeld,          \* per thread: objects acquired directly and not yet released
    pScript,        \* monitor of the run  x = acquire(); release(x); acquire()
    \* ---- runner.py ----
    rEntry,         \* what is called: "main" (the CLI) or "run_example" directly
    rArgv,          \* sys.argv[1:]: empty, or the one argument (a string)
    rImportOk,      \* importlib.import_module finds the named module
    rHasAttr,       \* the module has the named attribute
    rKind,          \* what the example function does when called
    rValue,         \* what the example function returns when it returns
    rName,          \* the name argument of run_example
    rPc,            \* position inside main / run_example / example_context
    rTrace,         \* what has been written to stdout, and when func ran, in order
    rErr,           \* number of lines written to stderr
    rExit,          \* how the called entry point ended
    rCalls,         \* how many times the example function has been invoked
    rResult,        \* the value run_example returned
    rPending,       \* the exception in flight, or "none"
    \* ---- free_threaded_interpreter.py: thread_safety_example ----
    cSafe,          \* the counter under test is a SafeCounter (else an UnsafeCounter)
    count,          \* counter.count
    counter_lock,   \* SafeCounter._lock; 0 = free, else the holding thread
    cPc,            \* per worker: position inside worker / increment
    cLeft,          \* per worker: iterations of its for loop still to run
    cTmp,           \* per worker: the value of self.count it has read
    \* ---- descriptors.py: LazyProperty ----
    lzDict,         \* per DataLoader: its __dict__ entry "data", <<>> when absent
    lzCalls,        \* per DataLoader: how many times func has been invoked on it
    lzReads,        \* per DataLoader: how many times loader.data has been read
    lzRet,          \* per DataLoader: what its latest read returned, <<>> before
    \* ---- descriptors.py: TypedProperty and RangeValidated ----
    min_value,      \* RangeValidated.min_value of Temperature.celsius
    max_value,      \* RangeValidated.max_value of Temperature.celsius
    tpDict,         \* per Person: its __dict__ entries "_name" and "_age"
    rvDict,         \* per Temperature: its __dict__ entry "_celsius"
    vLast,          \* the latest attribute access: what was asked and how it ended
    \* ---- factory_method.py: create_logger ----
    lgHeap,         \* the loggers constructed so far, oldest first
    lgLast,         \* the latest call of create_logger and how it ended
    \* ---- factory_method.py: Serializer ----
    _registry,      \* Serializer._registry: format name -> class
    srClasses,      \* the subclasses of Serializer by name, in definition order
    srInstances,    \* the serializers constructed so far: the class of each
    srLast,         \* the latest class statement or create() and how it ended
    \* ---- state.py: VendingMachine ----
    _state,         \* VendingMachine._state: which of its state objects is current
    vmLog,          \* the calls made on the machine so far, in order
    \* ---- state.py: TCPConnection ----
    state,          \* TCPConnection.state
    tcpLog,         \* the calls made on the connection so far, in order
    \* ---- command.py ----
    text,           \* TextEditor.text
    commands,       \* the command objects made so far, in order of construction
    _history,       \* CommandHistory._history: the command objects it refers to
    _current,       \* CommandHistory._current
    chLast          \* the latest call on the history and what it returned

singVars == <<_instances, singleton_lock, sObjs, sPc, sArg, sLocal, sRet, sDone>>

poolVars == <<_max_size, _timeout, _pool, pool_lock, _created_count, pFactoryCalls,
              pClock, pPc, pCtx, pObj, pExc, pHeld, pScript>>

runVars == <<rEntry, rArgv, rImportOk, rHasAttr, rKind, rValue, rName, rPc, rTrace,
             rErr, rExit, rCalls, rResult, rPending>>

cntVars == <<cSafe, count, counter_lock, cPc, cLeft, cTmp>>

lazyVars == <<lzDict, lzCalls, lzReads, lzRet>>

valVars == <<min_value, max_value, tpDict, rvDict, vLast>>

logVars == <<lgHeap, lgLast>>

serVars == <<_registry, srClasses, srInstances, srLast>>

vendVars == <<_state, vmLog>>

tcpVars == <<state, tcpLog>>

cmdVars == <<text, commands, _history, _current, chLast>>

vars == <<singVars, poolVars, runVars, cntVars, lazyVars, valVars, logVars,
    serVars, vendVars, tcpVars, cmdVars>>

(***************************************************************************)
(* singleton.py: SingletonMeta and DatabaseConnection                      *)
(***************************************************************************)
Callers == 1..NumCallers
Hosts == 1..NumHosts
NoHost == 0    \* hasattr(self, "host") is False

InClsInstances == _instances # 0

SingInit ==
    /\ _instances = 0
    /\ singleton_lock = 0
    /\ sObjs = <<>>
    /\ sPc = [t \in Callers |-> "idle"]
    /\ sArg = [t \in Callers |-> NoHost]
    /\ sLocal = [t \in Callers |-> 0]
    /\ sRet = [t \in Callers |-> [arg |-> NoHost, inst |-> 0]]
    /\ sDone = [t \in Callers |-> 0]

\* A thread evaluates DatabaseConnection(h): entry of SingletonMeta.__call__.
SingCall(t, h) ==
    /\ sPc[t] = "idle"
    /\ sDone[t] < MaxCallsPerCaller
    /\ sPc' = [sPc EXCEPT ![t] = "check1"]
    /\ sArg' = [sArg EXCEPT ![t] = h]
    /\ UNCHANGED <<_instances, singleton_lock, sObjs, sLocal, sRet, sDone>>

\* line 41: if cls not in cls._instances (outside the lock)
FirstCheck(t) ==
    /\ sPc[t] = "check1"
    /\ sPc' = [sPc EXCEPT ![t] = IF InClsInstances THEN "return" ELSE "lock"]
    /\ UNCHANGED <<_instances, singleton_lock, sObjs, sArg, sLocal, sRet, sDone>>

\* Mutant of LockAcquire: the lock excludes nobody.
LockAcquireNoExclusion(t) ==
    /\ sPc[t] = "lock"
    /\ singleton_lock' = t
    /\ sPc' = [sPc EXCEPT ![t] = "check2"]
    /\ UNCHANGED <<_instances, sObjs, sArg, sLocal, sRet, sDone>>

\* line 42: with cls._lock (threading.Lock, not re-entrant)
LockAcquire(t) ==
    /\ sPc[t] = "lock"
    /\ singleton_lock = 0
    /\ singleton_lock' = t
    /\ sPc' = [sPc EXCEPT ![t] = "check2"]
    /\ UNCHANGED <<_instances, sObjs, sArg, sLocal, sRet, sDone>>

\* Mutant of SecondCheck: no re-check under the lock.
SecondCheckSkipped(t) ==
    /\ sPc[t] = "check2"
    /\ sPc' = [sPc EXCEPT ![t] = "new"]
    /\ UNCHANGED <<_instances, singleton_lock, sObjs, sArg, sLocal, sRet, sDone>>

\* line 44: if cls not in cls._instances (double-checked locking)
SecondCheck(t) ==
    /\ sPc[t] = "check2"
    /\ sPc' = [sPc EXCEPT ![t] = IF InClsInstances THEN "unlock" ELSE "new"]
    /\ UNCHANGED <<_instances, singleton_lock, sObjs, sArg, sLocal, sRet, sDone>>

\* line 45, first half: super().__call__ allocates a fresh object (type.__call__
\* runs __new__ and then __init__ on the new object).
TypeCallNew(t) ==
    /\ sPc[t] = "new"
    /\ sObjs' = Append(sObjs, [host |-> NoHost, connected |-> FALSE, inits |-> 0])
    /\ sLocal' = [sLocal EXCEPT ![t] = Len(sObjs) + 1]
    /\ sPc' = [sPc EXCEPT ![t] = "init"]
    /\ UNCHANGED <<_instances, singleton_lock, sArg, sRet, sDone>>

\* DatabaseConnection.__init__(self, host): sets the attributes only when the
\* object has no host yet; `inits` counts the runs of __init__.
DatabaseConnection__init__(obj, host) ==
    IF obj.host = NoHost
    THEN [host |-> host, connected |-> TRUE, inits |-> obj.inits + 1]
    ELSE [obj EXCEPT !.inits = obj.inits + 1]

\* line 45, second half: type.__call__ runs __init__ on the new object.
TypeCallInit(t) ==
    /\ sPc[t] = "init"
    /\ sObjs' = [sObjs EXCEPT ![sLocal[t]] = DatabaseConnection__init__(@, sArg[t])]
    /\ sPc' = [sPc EXCEPT ![t] = "store"]
    /\ UNCHANGED <<_instances, singleton_lock, sArg, sLocal, sRet, sDone>>

\* line 46: cls._instances[cls] = instance
StoreInstance(t) ==
    /\ sPc[t] = "store"
    /\ _instances' = sLocal[t]
    /\ sPc' = [sPc EXCEPT ![t] = "unlock"]
    /\ UNCHANGED <<singleton_lock, sObjs, sArg, sLocal, sRet, sDone>>

\* end of the with block: the lock is released
LockRelease(t) ==
    /\ sPc[t] = "unlock"
    /\ singleton_lock' = 0
    /\ sPc' = [sPc EXCEPT ![t] = "return"]
    /\ UNCHANGED <<_instances, sObjs, sArg, sLocal, sRet, sDone>>

\* line 47: return cls._instances[cls]
ReturnInstance(t) ==
    /\ sPc[t] = "return"
    /\ sRet' = [sRet EXCEPT ![t] = [arg |-> sArg[t], inst |-> _instances]]
    /\ sDone' = [sDone EXCEPT ![t] = @ + 1]
    /\ sPc' = [sPc EXCEPT ![t] = "idle"]
    /\ UNCHANGED <<_instances, singleton_lock, sObjs, sArg, sLocal>>

SingStep ==
    \E t \in Callers :
        \/ \E h \in Hosts : SingCall(t, h)
        \/ FirstCheck(t)
        \/ LockAcquire(t)
        \/ SecondCheck(t)
        \/ TypeCallNew(t)
        \/ TypeCallInit(t)
        \/ StoreInstance(t)
        \/ LockRelease(t)
        \/ ReturnInstance(t)

(***************************************************************************)
(* object_pool.py: ObjectPool                                              *)
(***************************************************************************)
PoolThreads == 1..NumPoolThreads

\* ObjectPool.__init__: an empty queue, nothing created. max_size and timeout
\* are the constructor's arguments; a timeout is None (the default) or a number
\* of seconds >= 0, which Queue.get accepts as a deadline.
PoolInit ==
    /\ _max_size \in 0..MaxPoolSize
    /\ _timeout \in {"None", "finite"}
    /\ _pool = <<>>
    /\ pool_lock = 0
    /\ _created_count = 0
    /\ pFactoryCalls = 0
    /\ pClock = 0
    /\ pPc = [t \in PoolThreads |-> "idle"]
    /\ pCtx = [t \in PoolThreads |-> "none"]
    /\ pObj = [t \in PoolThreads |-> 0]
    /\ pExc = [t \in PoolThreads |-> "none"]
    /\ pHeld = [t \in PoolThreads |-> {}]
    /\ pScript = [step |-> 0, t |-> 0, x |-> 0, y |-> 0]

\* queue.Queue(maxsize=max_size).full(): a maxsize <= 0 means an unbounded queue.
QueueFull == _max_size > 0 /\ Len(_pool) >= _max_size

\* The monitor of the single-threaded run x = acquire(); release(x); acquire().
\* It follows the operations that complete on the pool, from the fresh pool on:
\* step 1 after a first acquire() that made x, step 2 after the same thread
\* released x, step 3 after that thread's next acquire() returned y. Any other
\* completed operation, by any thread, switches it off (step -1).
ScriptOff == [step |-> -1, t |-> 0, x |-> 0, y |-> 0]

ScriptCreated(t, o) ==
    IF pScript.step = 0 THEN [step |-> 1, t |-> t, x |-> o, y |-> 0] ELSE ScriptOff

ScriptReleased(t, o) ==
    IF pScript.step = 1 /\ pScript.t = t /\ pScript.x = o
    THEN [pScript EXCEPT !.step = 2] ELSE ScriptOff

ScriptTaken(t, o) ==
    IF pScript.step = 2 /\ pScript.t = t
    THEN [pScript EXCEPT !.step = 3, !.y = o] ELSE ScriptOff

\* self.acquire() has returned o to thread t: inside get_object the object is
\* bound by the with statement and the body starts; otherwise the caller keeps it.
AcquireReturns(t, o) ==
    IF pCtx[t] = "with"
    THEN /\ pPc' = [pPc EXCEPT ![t] = "body"]
         /\ pObj' = [pObj EXCEPT ![t] = o]
         /\ UNCHANGED pHeld
    ELSE /\ pPc' = [pPc EXCEPT ![t] = "idle"]
         /\ pHeld' = [pHeld EXCEPT ![t] = @ \cup {o}]
         /\ UNCHANGED pObj

\* A thread calls pool.acquire().
AcquireCall(t) ==
    /\ pPc[t] = "idle"
    /\ pClock < MaxTime
    /\ pClock' = pClock + 1
    /\ pPc' = [pPc EXCEPT ![t] = "get"]
    /\ pExc' = [pExc EXCEPT ![t] = "none"]
    /\ UNCHANGED <<_max_size, _timeout, _pool, pool_lock, _created_count,
                   pFactoryCalls, pCtx, pObj, pHeld, pScript>>

\* A thread enters `with pool.get_object() as obj`: line 134, obj = self.acquire()
GetObjectEnter(t) ==
    /\ pPc[t] = "idle"
    /\ pPc' = [pPc EXCEPT ![t] = "get"]
    /\ pClock < MaxTime
    /\ pClock' = pClock + 1
    /\ pCtx' = [pCtx EXCEPT ![t] = "with"]
    /\ pExc' = [pExc EXCEPT ![t] = "none"]
    /\ UNCHANGED <<_max_size, _timeout, _pool, pool_lock, _created_count,
                   pFactoryCalls, pObj, pHeld, pScript>>

\* Mutant of QueueGet: the queue hands out its newest item (a LIFO queue).
QueueGetNewest(t) ==
    /\ pPc[t] = "get"
    /\ _pool # <<>>
    /\ _pool' = SubSeq(_pool, 1, Len(_pool) - 1)
    /\ pScript' = ScriptTaken(t, _pool[Len(_pool)].obj)
    /\ AcquireReturns(t, _pool[Len(_pool)].obj)
    /\ UNCHANGED <<_max_size, _timeout, pool_lock, _created_count, pFactoryCalls,
                   pClock, pCtx, pExc>>

\* lines 86-89: self._pool.get(timeout=...) finds an item: the head of the queue
\* is removed and its obj returned. (last_used and use_count are set on the
\* wrapper, which is dropped here: release() wraps the object anew.)
QueueGet(t) ==
    /\ pPc[t] = "get"
    /\ _pool # <<>>
    /\ _pool' = Tail(_pool)
    /\ pScript' = ScriptTaken(t, Head(_pool).obj)
    /\ AcquireReturns(t, Head(_pool).obj)
    /\ UNCHANGED <<_max_size, _timeout, pool_lock, _created_count, pFactoryCalls,
                   pClock, pCtx, pExc>>

\* lines 86, 91: Queue.get(block=True, timeout) raises Empty only when the wait
\* has a deadline (timeout is not None) and the queue is empty when it expires.
\* With timeout=None the call waits until an item is put.
QueueEmpty(t) ==
    /\ pPc[t] = "get"
    /\ _timeout # "None"
    /\ _pool = <<>>
    /\ pPc' = [pPc EXCEPT ![t] = "lock"]
    /\ UNCHANGED <<_max_size, _timeout, _pool, pool_lock, _created_count,
                   pFactoryCalls, pClock, pCtx, pObj, pExc, pHeld, pScript>>

\* Mutant of PoolLockAcquire: the lock excludes nobody.
PoolLockAcquireNoExclusion(t) ==
    /\ pPc[t] = "lock"
    /\ pool_lock' = t
    /\ pPc' = [pPc EXCEPT ![t] = "check"]
    /\ UNCHANGED <<_max_size, _timeout, _pool, _created_count, pFactoryCalls,
                   pClock, pCtx, pObj, pExc, pHeld, pScript>>

\* line 93: with self._lock
PoolLockAcquire(t) ==
    /\ pPc[t] = "lock"
    /\ pool_lock = 0
    /\ pool_lock' = t
    /\ pPc' = [pPc EXCEPT ![t] = "check"]
    /\ UNCHANGED <<_max_size, _timeout, _pool, _created_count, pFactoryCalls,
                   pClock, pCtx, pObj, pExc, pHeld, pScript>>

\* Mutant of UnderLimit: an off-by-one comparison.
UnderLimitInclusive == _created_count <= _max_size

\* line 94: if self._created_count < self._max_size
UnderLimit == _created_count < _max_size

\* line 94, as a step of the thread that holds the lock
CheckLimit(t) ==
    /\ pPc[t] = "check"
    /\ pPc' = [pPc EXCEPT ![t] = IF UnderLimit THEN "factory" ELSE "raise"]
    /\ UNCHANGED <<_max_size, _timeout, _pool, pool_lock, _created_count,
                   pFactoryCalls, pClock, pCtx, pObj, pExc, pHeld, pScript>>

\* lines 95-97: obj = self._factory(); self._created_count += 1; return obj
\* (leaving the with block releases the lock). The factory makes a new object
\* each time; objects are numbered in the order they are made.
CreateObject(t) ==
    /\ pPc[t] = "factory"
    /\ pFactoryCalls' = pFactoryCalls + 1
    /\ _created_count' = _created_count + 1
    /\ pool_lock' = 0
    /\ pScript' = ScriptCreated(t, pFactoryCalls + 1)
    /\ AcquireReturns(t, pFactoryCalls + 1)
    /\ UNCHANGED <<_max_size, _timeout, _pool, pClock, pCtx, pExc>>

\* line 98: raise TimeoutError(...) (leaving the with block releases the lock).
\* Inside get_object the try block has not been entered, so the error leaves the
\* with statement without a release.
RaiseTimeoutError(t) ==
    /\ pPc[t] = "raise"
    /\ pool_lock' = 0
    /\ pScript' = ScriptOff
    /\ pExc' = [pExc EXCEPT ![t] = "TimeoutError"]
    /\ pPc' = [pPc EXCEPT ![t] = "idle"]
    /\ pCtx' = [pCtx EXCEPT ![t] = "none"]
    /\ UNCHANGED <<_max_size, _timeout, _pool, _created_count, pFactoryCalls,
                   pClock, pObj, pHeld>>

\* lines 107-118, release(obj): the object is wrapped in a new PooledObject
\* stamped with the current time and put_nowait() appends it, unless the queue is
\* full: then Full is swallowed and the object is dropped.
release(t, o) ==
    /\ pClock' = pClock + 1
    /\ _pool' = IF QueueFull THEN _pool
                ELSE Append(_pool, [obj |-> o, created_at |-> pClock])
    /\ pScript' = ScriptReleased(t, o)

\* A thread calls pool.release(o) with an object it acquired earlier.
ReleaseHeld(t, o) ==
    /\ pPc[t] = "idle"
    /\ o \in pHeld[t]
    /\ pClock < MaxTime
    /\ release(t, o)
    /\ pHeld' = [pHeld EXCEPT ![t] = @ \ {o}]
    /\ pExc' = [pExc EXCEPT ![t] = "none"]
    /\ UNCHANGED <<_max_size, _timeout, pool_lock, _created_count, pFactoryCalls,
                   pPc, pCtx, pObj>>

\* A thread calls pool.release(o) with an object that did not come from the pool
\* (release accepts any object); such an object is numbered by the negated time
\* of its release, so that each is a different object.
ReleaseForeign(t) ==
    /\ pPc[t] = "idle"
    /\ pClock < MaxTime
    /\ release(t, -(pClock + 1))
    /\ pExc' = [pExc EXCEPT ![t] = "none"]
    /\ UNCHANGED <<_max_size, _timeout, pool_lock, _created_count, pFactoryCalls,
                   pPc, pCtx, pObj, pHeld>>

\* line 136: the body of the with statement runs and ends, normally or by raising.
BodyEnds(t, raises) ==
    /\ pPc[t] = "body"
    /\ pExc' = [pExc EXCEPT ![t] = IF raises THEN "Exception" ELSE "none"]
    /\ pPc' = [pPc EXCEPT ![t] = "finally"]
    /\ UNCHANGED <<_max_size, _timeout, _pool, pool_lock, _created_count,
                   pFactoryCalls, pClock, pCtx, pObj, pHeld, pScript>>

\* Mutant of GetObjectExit: release() after the yield, without try/finally.
GetObjectExitNoFinally(t) ==
    /\ pPc[t] = "finally"
    /\ IF pExc[t] # "none"
       THEN UNCHANGED <<_pool, pClock, pScript>>
       ELSE release(t, pObj[t])
    /\ pObj' = [pObj EXCEPT ![t] = 0]
    /\ pPc' = [pPc EXCEPT ![t] = "idle"]
    /\ pCtx' = [pCtx EXCEPT ![t] = "none"]
    /\ UNCHANGED <<_max_size, _timeout, pool_lock, _created_count, pFactoryCalls,
                   pExc, pHeld>>

\* lines 137-138: finally: self.release(obj); then the with statement is left,
\* and an exception of the body (pExc) goes on to the caller.
GetObjectExit(t) ==
    /\ pPc[t] = "finally"
    /\ release(t, pObj[t])
    /\ pObj' = [pObj EXCEPT ![t] = 0]
    /\ pPc' = [pPc EXCEPT ![t] = "idle"]
    /\ pCtx' = [pCtx EXCEPT ![t] = "none"]
    /\ UNCHANGED <<_max_size, _timeout, pool_lock, _created_count, pFactoryCalls,
                   pExc, pHeld>>

PoolStep ==
    \E t \in PoolThreads :
        \/ AcquireCall(t)
        \/ GetObjectEnter(t)
        \/ QueueGet(t)
        \/ QueueEmpty(t)
        \/ PoolLockAcquire(t)
        \/ CheckLimit(t)
        \/ CreateObject(t)
        \/ RaiseTimeoutError(t)
        \/ \E o \in pHeld[t] : ReleaseHeld(t, o)
        \/ ReleaseForeign(t)
        \/ \E raises \in BOOLEAN : BodyEnds(t, raises)
        \/ GetObjectExit(t)

(***************************************************************************)
(* core/runner.py: example_context, run_example, main                      *)
(***************************************************************************)
\* The characters an argument is made of: a letter and the dot.
Chars == {"a", "."}

\* The strings of at most n characters.
Strings(n) == UNION {[1..k -> Chars] : k \in 0..n}

\* The position of the last "." of s, or 0.
LastDot(s) ==
    IF \E i \in 1..Len(s) : s[i] = "."
    THEN CHOOSE i \in 1..Len(s) : s[i] = "." /\ \A j \in (i + 1)..Len(s) : s[j] # "."
    ELSE 0

\* line 77: module_path.rsplit(".", 1)
RSplit(s) ==
    IF LastDot(s) = 0 THEN <<s>>
    ELSE <<SubSeq(s, 1, LastDot(s) - 1), SubSeq(s, LastDot(s) + 1, Len(s))>>

\* What the example function may do when called: return a value, raise an
\* Exception, raise a BaseException that is no Exception (KeyboardInterrupt),
\* or be an object that is not callable (the call raises TypeError); "no_name" is
\* a function object without __name__.
Kinds == {"returns", "raises", "raises_base", "not_callable", "no_name"}
Values == {"None", "42"}
Names == {"None", "", "n"}

RunnerInit ==
    /\ rEntry \in {"main", "run_example"}
    /\ rArgv \in {<<>>} \cup {<<s>> : s \in Strings(MaxArgLen)}
    /\ rImportOk \in BOOLEAN
    /\ rHasAttr \in BOOLEAN
    /\ rKind \in Kinds
    /\ rValue \in Values
    /\ rName \in Names
    \* main passes no name, and a direct call of run_example reads no argv
    /\ rEntry = "main" => rName = "None"
    /\ rEntry = "run_example" => (rArgv = <<>> /\ rImportOk /\ rHasAttr)
    /\ rPc = rEntry
    /\ rTrace = <<>>
    /\ rErr = 0
    /\ rExit = "running"
    /\ rCalls = 0
    /\ rResult = "unset"
    /\ rPending = "none"

\* lines 67-74: without an argument main prints the usage and exits with 1.
MainArgv ==
    /\ rPc = "main"
    /\ IF Len(rArgv) + 1 < 2
       THEN /\ rTrace' = rTrace \o <<"usage", "usage">>
            /\ rExit' = "exit1"
            /\ rPc' = "done"
       ELSE /\ rPc' = "split"
            /\ UNCHANGED <<rTrace, rExit>>
    /\ UNCHANGED <<rEntry, rArgv, rImportOk, rHasAttr, rKind, rValue, rName, rErr,
                   rCalls, rResult, rPending>>

\* lines 77-81: the argument is split at its last dot; without a dot ValueError
MainSplit ==
    /\ rPc = "split"
    /\ IF Len(RSplit(rArgv[1])) # 2
       THEN rPc' = "except" /\ rPending' = "Exception"
       ELSE rPc' = "import" /\ UNCHANGED rPending
    /\ UNCHANGED <<rEntry, rArgv, rImportOk, rHasAttr, rKind, rValue, rName, rTrace,
                   rErr, rExit, rCalls, rResult>>

\* line 86: importlib.import_module(module_name); an empty name is a ValueError,
\* a module that is not found an ImportError.
MainImport ==
    /\ rPc = "import"
    /\ IF RSplit(rArgv[1])[1] = <<>> \/ ~rImportOk
       THEN rPc' = "except" /\ rPending' = "Exception"
       ELSE rPc' = "getattr" /\ UNCHANGED rPending
    /\ UNCHANGED <<rEntry, rArgv, rImportOk, rHasAttr, rKind, rValue, rName, rTrace,
                   rErr, rExit, rCalls, rResult>>

\* line 89: getattr(module, func_name); a missing attribute is an AttributeError.
MainGetattr ==
    /\ rPc = "getattr"
    /\ IF RSplit(rArgv[1])[2] = <<>> \/ ~rHasAttr
       THEN rPc' = "except" /\ rPending' = "Exception"
       ELSE rPc' = "run_example" /\ UNCHANGED rPending
    /\ UNCHANGED <<rEntry, rArgv, rImportOk, rHasAttr, rKind, rValue, rName, rTrace,
                   rErr, rExit, rCalls, rResult>>

\* Where an exception that leaves run_example goes: into main's try block, or to
\* the caller of run_example.
Raised(exc) ==
    /\ rPending' = exc
    /\ IF rEntry = "main"
       THEN rPc' = "except" /\ UNCHANGED rExit
       ELSE rPc' = "done" /\ rExit' = "raised"

\* line 55: example_name = name or func.__name__
RunExampleName ==
    /\ rPc = "run_example"
    /\ IF rName \in {"None", ""} /\ rKind = "no_name"
       THEN Raised("Exception")
       ELSE rPc' = "enter" /\ UNCHANGED <<rPending, rExit>>
    /\ UNCHANGED <<rEntry, rArgv, rImportOk, rHasAttr, rKind, rValue, rName, rTrace,
                   rErr, rCalls, rResult>>

\* lines 27-30: example_context prints the start delimiter line and yields.
ContextEnter ==
    /\ rPc = "enter"
    /\ rTrace' = Append(rTrace, "start")
    /\ rPc' = "call"
    /\ UNCHANGED <<rEntry, rArgv, rImportOk, rHasAttr, rKind, rValue, rName, rErr,
                   rExit, rCalls, rResult, rPending>>

\* line 57: func() runs inside the with block.
CallFunc ==
    /\ rPc = "call"
    /\ IF rKind = "not_callable"
       THEN /\ rPending' = "Exception"
            /\ UNCHANGED <<rCalls, rTrace>>
       ELSE /\ rCalls' = rCalls + 1
            /\ rTrace' = Append(rTrace, "func")
            /\ rPending' = CASE rKind = "raises" -> "Exception"
                             [] rKind = "raises_base" -> "BaseException"
                             [] OTHER -> "none"
    /\ rPc' = "exit"
    /\ UNCHANGED <<rEntry, rArgv, rImportOk, rHasAttr, rKind, rValue, rName, rErr,
                   rExit, rResult>>

\* Where control goes when example_context is left: with an exception in flight
\* it propagates; otherwise run_example returns func's value (main drops it and
\* returns).
LeaveContext ==
    IF rPending # "none"
    THEN /\ IF rEntry = "main"
            THEN rPc' = "except" /\ UNCHANGED rExit
            ELSE rPc' = "done" /\ rExit' = "raised"
         /\ UNCHANGED rResult
    ELSE /\ rResult' = rValue
         /\ rPc' = "done"
         /\ rExit' = "returned"

\* Mutant of ContextExit: the END line is printed after the yield, without
\* try/finally.
ContextExitNoFinally ==
    /\ rPc = "exit"
    /\ rTrace' = IF rPending = "none" THEN Append(rTrace, "END") ELSE rTrace
    /\ LeaveContext
    /\ UNCHANGED <<rEntry, rArgv, rImportOk, rHasAttr, rKind, rValue, rName, rErr,
                   rCalls, rPending>>

\* lines 31-32: finally: the END delimiter line is printed, however the block
\* was left.
ContextExit ==
    /\ rPc = "exit"
    /\ rTrace' = Append(rTrace, "END")
    /\ LeaveContext
    /\ UNCHANGED <<rEntry, rArgv, rImportOk, rHasAttr, rKind, rValue, rName, rErr,
                   rCalls, rPending>>

\* Mutant of MainExcept: the error is printed, and main returns.
MainExceptNoExit ==
    /\ rPc = "except"
    /\ IF rPending = "Exception"
       THEN rErr' = rErr + 1 /\ rExit' = "returned" /\ rPending' = "none"
       ELSE rExit' = "raised" /\ UNCHANGED <<rErr, rPending>>
    /\ rPc' = "done"
    /\ UNCHANGED <<rEntry, rArgv, rImportOk, rHasAttr, rKind, rValue, rName, rTrace,
                   rCalls, rResult>>

\* lines 93-95: except Exception: the error is printed to stderr and main exits
\* with 1. A BaseException that is no Exception is not caught and leaves main.
MainExcept ==
    /\ rPc = "except"
    /\ IF rPending = "Exception"
       THEN rErr' = rErr + 1 /\ rExit' = "exit1" /\ rPending' = "none"
       ELSE rExit' = "raised" /\ UNCHANGED <<rErr, rPending>>
    /\ rPc' = "done"
    /\ UNCHANGED <<rEntry, rArgv, rImportOk, rHasAttr, rKind, rValue, rName, rTrace,
                   rCalls, rResult>>

RunnerStep ==
    \/ MainArgv
    \/ MainSplit
    \/ MainImport
    \/ MainGetattr
    \/ RunExampleName
    \/ ContextEnter
    \/ CallFunc
    \/ ContextExit
    \/ MainExcept

(***************************************************************************)
(* python_313/free_threaded_interpreter.py: thread_safety_example          *)
(***************************************************************************)
Workers == 1..NumWorkers

\* lines 170-171, 183-184: a fresh counter and the worker threads, each about to
\* run worker(counter, iterations).
CounterInit ==
    /\ cSafe \in BOOLEAN
    /\ count = 0
    /\ counter_lock = 0
    /\ cPc = [w \in Workers |-> "loop"]
    /\ cLeft = [w \in Workers |-> Iterations]
    /\ cTmp = [w \in Workers |-> 0]

\* Mutant of WorkerLoop: the loop runs once more than `iterations` times.
WorkerLoopOnceMore(w) ==
    /\ cPc[w] = "loop"
    /\ IF cLeft[w] = -1
       THEN cPc' = [cPc EXCEPT ![w] = "done"] /\ UNCHANGED cLeft
       ELSE /\ cLeft' = [cLeft EXCEPT ![w] = @ - 1]
            /\ cPc' = [cPc EXCEPT ![w] = IF cSafe THEN "lock" ELSE "read"]
    /\ UNCHANGED <<cSafe, count, counter_lock, cTmp>>

\* lines 166-167: for _ in range(iterations): counter.increment()
WorkerLoop(w) ==
    /\ cPc[w] = "loop"
    /\ IF cLeft[w] = 0
       THEN cPc' = [cPc EXCEPT ![w] = "done"] /\ UNCHANGED cLeft
       ELSE /\ cLeft' = [cLeft EXCEPT ![w] = @ - 1]
            /\ cPc' = [cPc EXCEPT ![w] = IF cSafe THEN "lock" ELSE "read"]
    /\ UNCHANGED <<cSafe, count, counter_lock, cTmp>>

\* Mutant of CounterLockAcquire: the lock excludes nobody.
CounterLockAcquireNoExclusion(w) ==
    /\ cPc[w] = "lock"
    /\ counter_lock' = w
    /\ cPc' = [cPc EXCEPT ![w] = "read"]
    /\ UNCHANGED <<cSafe, count, cLeft, cTmp>>

\* line 162: with self._lock
CounterLockAcquire(w) ==
    /\ cPc[w] = "lock"
    /\ counter_lock = 0
    /\ counter_lock' = w
    /\ cPc' = [cPc EXCEPT ![w] = "read"]
    /\ UNCHANGED <<cSafe, count, cLeft, cTmp>>

\* lines 153, 163, first half of self.count += 1: self.count is read
CounterRead(w) ==
    /\ cPc[w] = "read"
    /\ cTmp' = [cTmp EXCEPT ![w] = count]
    /\ cPc' = [cPc EXCEPT ![w] = "write"]
    /\ UNCHANGED <<cSafe, count, counter_lock, cLeft>>

\* lines 153, 163, second half of self.count += 1: the sum is stored
CounterWrite(w) ==
    /\ cPc[w] = "write"
    /\ count' = cTmp[w] + 1
    /\ cPc' = [cPc EXCEPT ![w] = IF cSafe THEN "unlock" ELSE "loop"]
    /\ UNCHANGED <<cSafe, counter_lock, cLeft, cTmp>>

\* end of the with block of line 162: the lock is released
CounterLockRelease(w) ==
    /\ cPc[w] = "unlock"
    /\ counter_lock' = 0
    /\ cPc' = [cPc EXCEPT ![w] = "loop"]
    /\ UNCHANGED <<cSafe, count, cLeft, cTmp>>

CounterStep ==
    \E w \in Workers :
        \/ WorkerLoop(w)
        \/ CounterLockAcquire(w)
        \/ CounterRead(w)
        \/ CounterWrite(w)
        \/ CounterLockRelease(w)

\* lines 175-176, 188-189: every thread has been joined
AllJoined == \A w \in Workers : cPc[w] = "done"

(***************************************************************************)
(* metaprogramming/descriptors.py: LazyProperty                            *)
(***************************************************************************)
\* The instances of a class whose method `data` is decorated with
\* @LazyProperty (DataLoader of the examples).
Loaders == {"loader1", "loader2", "loader3"}

\* Fresh instances: nothing in their __dict__, nothing read, func never called.
LazyInit ==
    /\ lzDict = [o \in Loaders |-> <<>>]
    /\ lzCalls = [o \in Loaders |-> 0]
    /\ lzReads = [o \in Loaders |-> 0]
    /\ lzRet = [o \in Loaders |-> <<>>]

\* line 126: self.func(obj). The decorated function builds a new object on each
\* call (the list of the examples): the object made by the n-th call on o.
func(o, n) == [made_for |-> o, call |-> n]

\* Mutant of LazyProperty__get__: the value is computed but not stored.
LazyProperty__get__NoSetattr(o) ==
    LET value == func(o, lzCalls[o] + 1) IN
    /\ lzCalls' = [lzCalls EXCEPT ![o] = @ + 1]
    /\ lzDict' = lzDict
    /\ lzRet' = [lzRet EXCEPT ![o] = <<value>>]

\* lines 122-128, with obj an instance: value = self.func(obj);
\* setattr(obj, self.name, value); return value. self.name is func.__name__
\* (line 120), which under the decorator is the name of the attribute itself.
LazyProperty__get__(o) ==
    LET value == func(o, lzCalls[o] + 1) IN
    /\ lzCalls' = [lzCalls EXCEPT ![o] = @ + 1]
    /\ lzDict' = [lzDict EXCEPT ![o] = <<value>>]
    /\ lzRet' = [lzRet EXCEPT ![o] = <<value>>]

\* The expression loader.data. LazyProperty defines __get__ only (no __set__,
\* no __delete__), so the attribute lookup takes an entry of the instance's
\* __dict__ first and calls the descriptor only when there is none.
ReadData(o) ==
    /\ lzReads[o] < MaxReads
    /\ lzReads' = [lzReads EXCEPT ![o] = @ + 1]
    /\ IF lzDict[o] # <<>>
       THEN /\ lzRet' = [lzRet EXCEPT ![o] = lzDict[o]]
            /\ UNCHANGED <<lzDict, lzCalls>>
       ELSE LazyProperty__get__(o)

LazyStep == \E o \in Loaders : ReadData(o)

(***************************************************************************)
(* metaprogramming/descriptors.py: TypedProperty and RangeValidated        *)
(***************************************************************************)
\* class Person: name = TypedProperty(str); age = TypedProperty(int)
\* class Temperature: celsius = RangeValidated(min_value, max_value)
Persons == {"person1", "person2"}
Temperatures == {"temp1", "temp2"}
TypedAttrs == {"name", "age"}

\* A Python value: its type and what it prints as.
PyValue(t, r) == [type |-> t, repr |-> r]
None == PyValue("NoneType", "None")

\* The values assigned to the attributes of a Person.
TypedValues ==
    {PyValue("str", "Alice"), PyValue("str", "thirty"),
     PyValue("int", "30"), PyValue("bool", "True")}

\* The numbers assigned to Temperature.celsius, and the limits it is built with.
RangeValues == -1..2
Limits == 0..1

\* isinstance(value, t): the type itself or a subclass of it (bool is a subclass
\* of int).
IsInstance(value, t) == value.type = t \/ (value.type = "bool" /\ t = "int")

\* lines 72-74: TypedProperty(str), TypedProperty(int)
expected_type == [a \in TypedAttrs |-> IF a = "name" THEN "str" ELSE "int"]

\* lines 77-79, 194-196, __set_name__: self.name = f"_{name}"
SetName(a) == "_" \o a

NoAccess ==
    [cls |-> "none", op |-> "none", obj |-> "none", attr |-> "none",
     exc |-> "none", value |-> None, number |-> 0]

\* Fresh instances: nothing has been assigned.
ValidatedInit ==
    /\ min_value \in Limits
    /\ max_value \in Limits
    /\ tpDict = [p \in Persons |-> [n \in {SetName(a) : a \in TypedAttrs} |-> <<>>]]
    /\ rvDict = [t \in Temperatures |-> <<>>]
    /\ vLast = NoAccess

\* lines 81-85: person.<a> returns getattr(obj, self.name, None)
TypedProperty__get__(p, a) ==
    /\ vLast' = [cls |-> "Person", op |-> "get", obj |-> p, attr |-> a,
                 exc |-> "none", number |-> 0,
                 value |-> IF tpDict[p][SetName(a)] = <<>>
                           THEN None ELSE tpDict[p][SetName(a)][1]]
    /\ UNCHANGED <<min_value, max_value, tpDict, rvDict>>

\* Mutant of TypedProperty__set__: the value is stored before it is checked.
TypedProperty__set__StoreFirst(p, a, v) ==
    /\ tpDict' = [tpDict EXCEPT ![p][SetName(a)] = <<v>>]
    /\ vLast' = [cls |-> "Person", op |-> "set", obj |-> p, attr |-> a,
                 exc |-> IF IsInstance(v, expected_type[a]) THEN "none" ELSE "TypeError",
                 number |-> 0, value |-> v]
    /\ UNCHANGED <<min_value, max_value, rvDict>>

\* lines 87-93: person.<a> = v raises TypeError unless isinstance(v,
\* self.expected_type), and otherwise does setattr(obj, self.name, v)
TypedProperty__set__(p, a, v) ==
    /\ IF ~IsInstance(v, expected_type[a])
       THEN /\ vLast' = [cls |-> "Person", op |-> "set", obj |-> p, attr |-> a,
                         exc |-> "TypeError", number |-> 0, value |-> v]
            /\ UNCHANGED tpDict
       ELSE /\ tpDict' = [tpDict EXCEPT ![p][SetName(a)] = <<v>>]
            /\ vLast' = [cls |-> "Person", op |-> "set", obj |-> p, attr |-> a,
                         exc |-> "none", number |-> 0, value |-> v]
    /\ UNCHANGED <<min_value, max_value, rvDict>>

\* lines 198-202: temp.celsius returns getattr(obj, self.name, 0.0)
RangeValidated__get__(t) ==
    /\ vLast' = [cls |-> "Temperature", op |-> "get", obj |-> t, attr |-> "celsius",
                 exc |-> "none", value |-> None,
                 number |-> IF rvDict[t] = <<>> THEN 0 ELSE rvDict[t][1]]
    /\ UNCHANGED <<min_value, max_value, tpDict, rvDict>>

\* lines 204-208: temp.celsius = x raises ValueError unless
\* self.min_value <= x <= self.max_value, and otherwise does setattr
RangeValidated__set__(t, x) ==
    /\ IF ~(min_value <= x /\ x <= max_value)
       THEN /\ vLast' = [cls |-> "Temperature", op |-> "set", obj |-> t,
                         attr |-> "celsius", exc |-> "ValueError",
                         value |-> None, number |-> x]
            /\ UNCHANGED rvDict
       ELSE /\ rvDict' = [rvDict EXCEPT ![t] = <<x>>]
            /\ vLast' = [cls |-> "Temperature", op |-> "set", obj |-> t,
                         attr |-> "celsius", exc |-> "none",
                         value |-> None, number |-> x]
    /\ UNCHANGED <<min_value, max_value, tpDict>>

ValidatedStep ==
    \/ \E p \in Persons, a \in TypedAttrs : TypedProperty__get__(p, a)
    \/ \E p \in Persons, a \in TypedAttrs, v \in TypedValues : TypedProperty__set__(p, a, v)
    \/ \E t \in Temperatures : RangeValidated__get__(t)
    \/ \E t \in Temperatures, x \in RangeValues : RangeValidated__set__(t, x)

(***************************************************************************)
(* oop/patterns/creational/factory_method.py                               *)
(***************************************************************************)
\* Strings are sequences of words of this vocabulary; a word is a run of
\* characters that is either all lower case or not.
Words ==
    {"JSON", "json", "XML", "xml", "YAML", "yaml", "CSV", "csv",
     "Serializer", "serializer",
     "FILE", "File", "file", "Console", "console", "DATABASE", "database",
     "syslog"}

\* str.lower() of a word
LowerWord(w) ==
    CASE w \in {"JSON", "json"} -> "json"
      [] w \in {"XML", "xml"} -> "xml"
      [] w \in {"YAML", "yaml"} -> "yaml"
      [] w \in {"CSV", "csv"} -> "csv"
      [] w \in {"Serializer", "serializer"} -> "serializer"
      [] w \in {"FILE", "File", "file"} -> "file"
      [] w \in {"Console", "console"} -> "console"
      [] w \in {"DATABASE", "database"} -> "database"
      [] OTHER -> w

\* str.lower()
Lower(s) == [i \in 1..Len(s) |-> LowerWord(s[i])]

\* s.replace("Serializer", ""): every occurrence is removed, in this case only
Replace(s) == SelectSeq(s, LAMBDA w : w # "Serializer")

\* ---- create_logger ----
\* What the caller passes as logger_type.
LoggerTypes ==
    {<<"file">>, <<"File">>, <<"FILE">>, <<"console">>, <<"Console">>,
     <<"database">>, <<"DATABASE">>, <<"syslog">>, <<"file", "console">>, <<>>}

\* What the caller passes as **kwargs: for each of the two keywords, the value
\* given or "absent".
Filenames == {"absent", "app.log"}
ConnectionStrings == {"absent", "db:5432"}

\* lines 30-93: the three classes; each defines log and close.
LoggerClasses == {"FileLogger", "ConsoleLogger", "DatabaseLogger"}
LoggerMethods == [c \in LoggerClasses |-> {"__init__", "log", "close"}]

\* lines 42-44, 66-68, 82-84: the constructors
FileLogger(filename) == [class |-> "FileLogger", arg |-> filename]
ConsoleLogger == [class |-> "ConsoleLogger", arg |-> "none"]
DatabaseLogger(connection_string) ==
    [class |-> "DatabaseLogger", arg |-> connection_string]

\* kwargs.get(key, default)
KwargsGet(given, default) == IF given = "absent" THEN default ELSE given

NoCall == [logger_type |-> <<>>, exc |-> "none", ret |-> 0]

\* Nothing has been constructed, nothing called.
LoggerInit ==
    /\ lgHeap = <<>>
    /\ lgLast = NoCall

\* Mutant of create_logger: the match is on logger_type as given.
create_logger_no_lower(logger_type, filename, connection_string) ==
    /\ Len(lgHeap) < MaxLoggers
    /\ CASE logger_type = <<"file">> ->
              /\ lgHeap' = Append(lgHeap, FileLogger(KwargsGet(filename, "default.log")))
              /\ lgLast' = [logger_type |-> logger_type, exc |-> "none",
                            ret |-> Len(lgHeap) + 1]
         [] logger_type = <<"console">> ->
              /\ lgHeap' = Append(lgHeap, ConsoleLogger)
              /\ lgLast' = [logger_type |-> logger_type, exc |-> "none",
                            ret |-> Len(lgHeap) + 1]
         [] logger_type = <<"database">> ->
              /\ lgHeap' = Append(lgHeap,
                                  DatabaseLogger(KwargsGet(connection_string, "localhost")))
              /\ lgLast' = [logger_type |-> logger_type, exc |-> "none",
                            ret |-> Len(lgHeap) + 1]
         [] OTHER ->
              /\ lgHeap' = lgHeap
              /\ lgLast' = [logger_type |-> logger_type, exc |-> "ValueError",
                            ret |-> 0]

\* lines 97-130: match logger_type.lower(); the logger made is the newest object
\* of the heap and `ret` its index there.
create_logger(logger_type, filename, connection_string) ==
    /\ Len(lgHeap) < MaxLoggers
    /\ CASE Lower(logger_type) = <<"file">> ->
              /\ lgHeap' = Append(lgHeap, FileLogger(KwargsGet(filename, "default.log")))
              /\ lgLast' = [logger_type |-> logger_type, exc |-> "none",
                            ret |-> Len(lgHeap) + 1]
         [] Lower(logger_type) = <<"console">> ->
              /\ lgHeap' = Append(lgHeap, ConsoleLogger)
              /\ lgLast' = [logger_type |-> logger_type, exc |-> "none",
                            ret |-> Len(lgHeap) + 1]
         [] Lower(logger_type) = <<"database">> ->
              /\ lgHeap' = Append(lgHeap,
                                  DatabaseLogger(KwargsGet(connection_string, "localhost")))
              /\ lgLast' = [logger_type |-> logger_type, exc |-> "none",
                            ret |-> Len(lgHeap) + 1]
         [] OTHER ->
              /\ lgHeap' = lgHeap
              /\ lgLast' = [logger_type |-> logger_type, exc |-> "ValueError",
                            ret |-> 0]

LoggerStep ==
    \E t \in LoggerTypes, f \in Filenames, c \in ConnectionStrings :
        create_logger(t, f, c)

\* ---- Serializer ----
\* lines 256-277: the subclasses the module defines, in this order.
ModuleClasses ==
    <<(<<"JSON", "Serializer">>), (<<"XML", "Serializer">>), (<<"YAML", "Serializer">>)>>

\* Names of subclasses a program defines after the import.
UserClasses ==
    {<<"CSV", "Serializer">>, <<"json", "Serializer">>, <<"Serializer">>,
     <<"CSV">>, <<"Serializer", "XML", "Serializer">>}

\* What the caller passes as format_type.
FormatTypes ==
    {<<"json">>, <<"JSON">>, <<"xml">>, <<"YAML">>, <<"csv">>, <<"CSV">>, <<>>,
     <<"JSON", "Serializer">>}

\* line 220: _registry = {}; no subclass exists yet.
SerializerInit ==
    /\ _registry = <<>>
    /\ srClasses = <<>>
    /\ srInstances = <<>>
    /\ srLast = [op |-> "none", arg |-> <<>>, exc |-> "none", ret |-> 0]

\* The module has been imported: its class statements have all run.
Imported == Len(srClasses) >= Len(ModuleClasses)

\* Mutant of FormatName: the name is not lower-cased.
FormatNameNoLower(name) == Replace(name)

\* line 226: cls.__name__.replace("Serializer", "").lower()
FormatName(name) == Lower(Replace(name))

\* lines 222-227, __init_subclass__ of a new subclass called `name`: the class
\* is the newest of srClasses and the registry maps its format name to it.
\* _registry is kept as the set of its items.
__init_subclass__(name) ==
    LET cls == Len(srClasses) + 1
        format_name == FormatName(name)
    IN  /\ srClasses' = Append(srClasses, name)
        /\ _registry' = [k \in DOMAIN _registry \cup {format_name} |->
                            IF k = format_name THEN cls ELSE _registry[k]]
        /\ srLast' = [op |-> "class", arg |-> name, exc |-> "none", ret |-> cls]
        /\ UNCHANGED srInstances

\* The import of factory_method.py runs the next of its class statements.
ImportModule ==
    /\ ~Imported
    /\ __init_subclass__(ModuleClasses[Len(srClasses) + 1])

\* A program defines one more subclass of Serializer.
DefineSubclass(name) ==
    /\ Imported
    /\ Len(srClasses) < Len(ModuleClasses) + MaxSubclasses
    /\ __init_subclass__(name)

\* lines 229-248, Serializer.create(format_type): the instance made is the
\* newest of srInstances (each entry is the class of the instance).
create(format_type) ==
    /\ Imported
    /\ Len(srInstances) < MaxCreates
    /\ LET key == Lower(format_type) IN
       IF key \notin DOMAIN _registry
       THEN /\ srLast' = [op |-> "create", arg |-> format_type,
                          exc |-> "ValueError", ret |-> 0]
            /\ UNCHANGED <<_registry, srClasses, srInstances>>
       ELSE /\ srInstances' = Append(srInstances, _registry[key])
            /\ srLast' = [op |-> "create", arg |-> format_type,
                          exc |-> "none", ret |-> Len(srInstances) + 1]
            /\ UNCHANGED <<_registry, srClasses>>

SerializerStep ==
    \/ ImportModule
    \/ \E name \in UserClasses : DefineSubclass(name)
    \/ \E format_type \in FormatTypes : create(format_type)

(***************************************************************************)
(* oop/patterns/behavioral/state.py: VendingMachine                        *)
(***************************************************************************)
\* The methods of State, and the three state objects a machine makes for itself
\* in __init__ (lines 102-104), named after the attributes that hold them.
VendingOps == {"insert_coin", "select_item", "dispense"}
VendingStates == {"no_coin_state", "has_coin_state", "dispensing_state"}

\* lines 33-47, NoCoinState: what each method returns and the state the
\* machine is in afterwards (set_state, lines 109-111, when the method calls it).
NoCoinState(op) ==
    CASE op = "insert_coin" -> [ret |-> "Coin inserted", state |-> "has_coin_state"]
      [] op = "select_item" -> [ret |-> "Insert coin first", state |-> "no_coin_state"]
      [] op = "dispense" -> [ret |-> "Insert coin first", state |-> "no_coin_state"]

\* Mutant of HasCoinState: dispense() hands out the item without a selection.
HasCoinStateDispenses(op) ==
    CASE op = "insert_coin" -> [ret |-> "Coin already inserted", state |-> "has_coin_state"]
      [] op = "select_item" -> [ret |-> "Item selected", state |-> "dispensing_state"]
      [] op = "dispense" -> [ret |-> "Item dispensed", state |-> "no_coin_state"]

\* lines 50-64, HasCoinState
HasCoinState(op) ==
    CASE op = "insert_coin" -> [ret |-> "Coin already inserted", state |-> "has_coin_state"]
      [] op = "select_item" -> [ret |-> "Item selected", state |-> "dispensing_state"]
      [] op = "dispense" -> [ret |-> "Select item first", state |-> "has_coin_state"]

\* lines 67-81, DispensingState
DispensingState(op) ==
    CASE op = "insert_coin" -> [ret |-> "Please wait, dispensing item",
                                state |-> "dispensing_state"]
      [] op = "select_item" -> [ret |-> "Already dispensing", state |-> "dispensing_state"]
      [] op = "dispense" -> [ret |-> "Item dispensed", state |-> "no_coin_state"]

\* lines 99-107: a new machine starts in no_coin_state; nothing has been called.
VendingInit ==
    /\ _state = "no_coin_state"
    /\ vmLog = <<>>

\* lines 113-123: insert_coin / select_item / dispense hand the call to the
\* current state object. The log keeps, for each call in order, the method,
\* what it returned and the machine's state before and after.
VendingCall(op) ==
    /\ Len(vmLog) < MaxVendingCalls
    /\ LET r == CASE _state = "no_coin_state" -> NoCoinState(op)
                  [] _state = "has_coin_state" -> HasCoinState(op)
                  [] _state = "dispensing_state" -> DispensingState(op)
       IN  /\ _state' = r.state
           /\ vmLog' = Append(vmLog, [op |-> op, ret |-> r.ret,
                                      before |-> _state, after |-> r.state])

VendingStep == \E op \in VendingOps : VendingCall(op)

(***************************************************************************)
(* oop/patterns/behavioral/state.py: TCPConnection                         *)
(***************************************************************************)
\* What is sent in the examples.
TcpData == {"data", "Hello"}

\* lines 141-143: a new connection is closed; nothing has been called.
TcpInit ==
    /\ state = "closed"
    /\ tcpLog = <<>>

\* One more call in the log: the method, its argument, what it returned and the
\* connection's state before and after.
TcpLogged(op, data, ret) ==
    /\ Len(tcpLog) < MaxTcpCalls
    /\ tcpLog' = Append(tcpLog, [op |-> op, data |-> data, ret |-> ret,
                                 before |-> state, after |-> state'])

\* lines 145-154, open()
open ==
    CASE state = "closed" ->
             state' = "established" /\ TcpLogged("open", "", "Connection established")
      [] state = "established" ->
             state' = state /\ TcpLogged("open", "", "Already connected")
      [] OTHER ->
             state' = state /\ TcpLogged("open", "", "Invalid state")

\* lines 156-164, send(data)
send(data) ==
    CASE state = "established" ->
             state' = state /\ TcpLogged("send", data, "Sent: " \o data)
      [] state = "closed" ->
             state' = state /\ TcpLogged("send", data, "Connection not open")
      [] OTHER ->
             state' = state /\ TcpLogged("send", data, "Invalid state")

\* Mutant of close: an established connection goes to a third state first.
closeHalfway ==
    CASE state = "established" ->
             state' = "closing" /\ TcpLogged("close", "", "Connection closed")
      [] state = "closed" ->
             state' = state /\ TcpLogged("close", "", "Already closed")
      [] OTHER ->
             state' = state /\ TcpLogged("close", "", "Invalid state")

\* lines 166-175, close()
close ==
    CASE state = "established" ->
             state' = "closed" /\ TcpLogged("close", "", "Connection closed")
      [] state = "closed" ->
             state' = state /\ TcpLogged("close", "", "Already closed")
      [] OTHER ->
             state' = state /\ TcpLogged("close", "", "Invalid state")

TcpStep ==
    \/ open
    \/ \E data \in TcpData : send(data)
    \/ close

(***************************************************************************)
(* oop/patterns/behavioral/command.py: TextEditor and CommandHistory       *)
(***************************************************************************)
\* Strings are sequences of characters. s[a:b] and s[a:] for 0 <= a, 0 <= b,
\* as Python slices them: indices past the end stop at the end.
Min(a, b) == IF a <= b THEN a ELSE b
Slice(s, a, b) ==
    IF Min(b, Len(s)) <= Min(a, Len(s))
    THEN <<>>
    ELSE SubSeq(s, Min(a, Len(s)) + 1, Min(b, Len(s)))
SliceFrom(s, a) == Slice(s, a, Len(s))

\* lines 38-42, TextEditor.insert(text, position): the text afterwards
insert(s, t, position) == Slice(s, 0, position) \o t \o SliceFrom(s, position)

\* lines 44-48, TextEditor.delete(position, length): the text afterwards and
\* the deleted portion, which is returned
delete(s, position, length) ==
    [text |-> Slice(s, 0, position) \o SliceFrom(s, position + length),
     deleted |-> Slice(s, position, position + length)]

\* The texts inserted and the lengths deleted by the commands of a run.
InsertTexts == {<<"a", "b">>, <<"c">>}
DeleteLengths == {1, 2}

\* Where the commands of a run act: an insert at the front or, as with the
\* default position of None, at the end of the text; a delete at the front.
InsertPositions == {0, Len(text)}
DeletePositions == {0}

\* lines 59-63: InsertCommand(editor, text, position); a position of None is
\* len(editor.text) at this moment.
InsertCommand(t, position) ==
    [kind |-> "insert", text |-> t, position |-> position, length |-> 0,
     deleted_text |-> <<>>]

\* lines 77-82: DeleteCommand(editor, position, length)
DeleteCommand(position, length) ==
    [kind |-> "delete", text |-> <<>>, position |-> position, length |-> length,
     deleted_text |-> <<>>]

\* lines 65-67, 84-86, command.execute() on the text s: the text afterwards
\* and the command object afterwards (a DeleteCommand keeps what it deleted).
CommandExecute(cmd, s) ==
    IF cmd.kind = "insert"
    THEN [text |-> insert(s, cmd.text, cmd.position), cmd |-> cmd]
    ELSE [text |-> delete(s, cmd.position, cmd.length).text,
          cmd |-> [cmd EXCEPT !.deleted_text =
                                  delete(s, cmd.position, cmd.length).deleted]]

\* lines 69-71, 88-90, command.undo() on the text s: the text afterwards
CommandUndo(cmd, s) ==
    IF cmd.kind = "insert"
    THEN delete(s, cmd.position, Len(cmd.text)).text
    ELSE insert(s, cmd.deleted_text, cmd.position)

\* lines 34-36, 110-113: an empty editor, an empty history, no command object.
CommandInit ==
    /\ text = <<>>
    /\ commands = <<>>
    /\ _history = <<>>
    /\ _current = -1
    /\ chLast = [op |-> "none", cmd |-> 0, ret |-> "None"]

\* Mutant of execute: the undone commands are kept in the history.
executeKeepsUndone(c, heap) ==
    /\ Len(_history) < MaxHistory
    /\ LET r == CommandExecute(heap[c], text) IN
          /\ text' = r.text
          /\ commands' = [heap EXCEPT ![c] = r.cmd]
    /\ _history' = Append(_history, c)
    /\ _current' = _current + 1
    /\ chLast' = [op |-> "execute", cmd |-> c, ret |-> "None"]

\* lines 115-122, CommandHistory.execute(command), for the command object c of
\* the heap of command objects `heap`. (_current counts from 0 as in the code;
\* _history[i] of the code is _history[i + 1] here.)
execute(c, heap) ==
    /\ _current + 1 < MaxHistory
    /\ LET r == CommandExecute(heap[c], text) IN
          /\ text' = r.text
          /\ commands' = [heap EXCEPT ![c] = r.cmd]
    /\ _history' = Append(SubSeq(_history, 1, _current + 1), c)
    /\ _current' = _current + 1
    /\ chLast' = [op |-> "execute", cmd |-> c, ret |-> "None"]

\* history.execute(InsertCommand(editor, t, position)) with a position inside
\* the text, as lines 189-195 do.
ExecuteNewInsert(t, position) ==
    /\ Len(commands) < MaxCommands
    /\ position \in 0..Len(text)
    /\ Len(text) + Len(t) <= MaxTextLen
    /\ execute(Len(commands) + 1, Append(commands, InsertCommand(t, position)))

\* history.execute(DeleteCommand(editor, position, length)) with a position
\* inside the text.
ExecuteNewDelete(position, length) ==
    /\ Len(commands) < MaxCommands
    /\ position \in 0..Len(text)
    /\ execute(Len(commands) + 1, Append(commands, DeleteCommand(position, length)))

\* history.execute(cmd) with a command object that was executed before and
\* whose position is inside the text now.
ExecuteAgain(c) ==
    /\ commands[c].position \in 0..Len(text)
    /\ commands[c].kind = "insert" => Len(text) + Len(commands[c].text) <= MaxTextLen
    /\ execute(c, commands)

\* Mutant of undo: _current is not moved.
undoKeepsCurrent ==
    IF _current < 0
    THEN /\ chLast' = [op |-> "undo", cmd |-> 0, ret |-> "False"]
         /\ UNCHANGED <<text, commands, _history, _current>>
    ELSE /\ text' = CommandUndo(commands[_history[_current + 1]], text)
         /\ _current' = _current
         /\ chLast' = [op |-> "undo", cmd |-> 0, ret |-> "True"]
         /\ UNCHANGED <<commands, _history>>

\* lines 124-131, CommandHistory.undo()
undo ==
    IF _current < 0
    THEN /\ chLast' = [op |-> "undo", cmd |-> 0, ret |-> "False"]
         /\ UNCHANGED <<text, commands, _history, _current>>
    ELSE /\ text' = CommandUndo(commands[_history[_current + 1]], text)
         /\ _current' = _current - 1
         /\ chLast' = [op |-> "undo", cmd |-> 0, ret |-> "True"]
         /\ UNCHANGED <<commands, _history>>

\* lines 133-140, CommandHistory.redo()
redo ==
    IF _current >= Len(_history) - 1
    THEN /\ chLast' = [op |-> "redo", cmd |-> 0, ret |-> "False"]
         /\ UNCHANGED <<text, commands, _history, _current>>
    ELSE LET c == _history[_current + 2]
             r == CommandExecute(commands[c], text)
         IN  /\ _current' = _current + 1
             /\ text' = r.text
             /\ commands' = [commands EXCEPT ![c] = r.cmd]
             /\ chLast' = [op |-> "redo", cmd |-> 0, ret |-> "True"]
             /\ UNCHANGED _history

CommandStep ==
    \/ \E t \in InsertTexts, position \in InsertPositions : ExecuteNewInsert(t, position)
    \/ \E position \in DeletePositions, length \in DeleteLengths :
          ExecuteNewDelete(position, length)
    \/ \E c \in 1..Len(commands) : ExecuteAgain(c)
    \/ undo
    \/ redo

(***************************************************************************)
(* The specifications: each machine runs with the others at rest.          *)
(***************************************************************************)
PoolOff == PoolInit /\ _max_size = 0 /\ _timeout = "None"
RunnerOff ==
    /\ rEntry = "main" /\ rArgv = <<>> /\ rImportOk = TRUE /\ rHasAttr = TRUE
    /\ rKind = "returns" /\ rValue = "None" /\ rName = "None"
    /\ RunnerInit

CounterOff == cSafe = TRUE /\ CounterInit
ValidatedOff == min_value = 0 /\ max_value = 0 /\ ValidatedInit

SingletonStart == SingInit /\ PoolOff /\ RunnerOff /\ CounterOff /\
    LazyInit /\ ValidatedOff /\ LoggerInit /\ SerializerInit /\
    VendingInit /\ TcpInit /\ CommandInit
SingNext == SingStep /\ UNCHANGED <<poolVars, runVars, cntVars, lazyVars,
    valVars, logVars, serVars, vendVars, tcpVars, cmdVars>>
SpecSingleton == SingletonStart /\ [][SingNext]_vars

PoolStart == PoolInit /\ SingInit /\ RunnerOff /\ CounterOff /\ LazyInit /\
    ValidatedOff /\ LoggerInit /\ SerializerInit /\ VendingInit /\ TcpInit /\
    CommandInit
PoolNext == PoolStep /\ UNCHANGED <<singVars, runVars, cntVars, lazyVars,
    valVars, logVars, serVars, vendVars, tcpVars, cmdVars>>
SpecPool == PoolStart /\ [][PoolNext]_vars

RunnerStart == RunnerInit /\ SingInit /\ PoolOff /\ CounterOff /\ LazyInit /\
    ValidatedOff /\ LoggerInit /\ SerializerInit /\ VendingInit /\ TcpInit /\
    CommandInit
RunnerNext == RunnerStep /\ UNCHANGED <<singVars, poolVars, cntVars,
    lazyVars, valVars, logVars, serVars, vendVars, tcpVars, cmdVars>>
SpecRunner == RunnerStart /\ [][RunnerNext]_vars

CounterStart == CounterInit /\ SingInit /\ PoolOff /\ RunnerOff /\
    LazyInit /\ ValidatedOff /\ LoggerInit /\ SerializerInit /\
    VendingInit /\ TcpInit /\ CommandInit
CounterNext == CounterStep /\ UNCHANGED <<singVars, poolVars, runVars,
    lazyVars, valVars, logVars, serVars, vendVars, tcpVars, cmdVars>>
SpecCounter == CounterStart /\ [][CounterNext]_vars

LazyStart == LazyInit /\ SingInit /\ PoolOff /\ RunnerOff /\ CounterOff /\
    ValidatedOff /\ LoggerInit /\ SerializerInit /\ VendingInit /\ TcpInit /\
    CommandInit
LazyNext == LazyStep /\ UNCHANGED <<singVars, poolVars, runVars, cntVars,
    valVars, logVars, serVars, vendVars, tcpVars, cmdVars>>
SpecLazy == LazyStart /\ [][LazyNext]_vars

ValidatedStart == ValidatedInit /\ SingInit /\ PoolOff /\ RunnerOff /\
    CounterOff /\ LazyInit /\ LoggerInit /\ SerializerInit /\ VendingInit /\
    TcpInit /\ CommandInit
ValidatedNext == ValidatedStep /\ UNCHANGED <<singVars, poolVars, runVars,
    cntVars, lazyVars, logVars, serVars, vendVars, tcpVars, cmdVars>>
SpecValidated == ValidatedStart /\ [][ValidatedNext]_vars

LoggerStart == LoggerInit /\ SingInit /\ PoolOff /\ RunnerOff /\
    CounterOff /\ LazyInit /\ ValidatedOff /\ SerializerInit /\
    VendingInit /\ TcpInit /\ CommandInit
LoggerNext == LoggerStep /\ UNCHANGED <<singVars, poolVars, runVars, cntVars,
    lazyVars, valVars, serVars, vendVars, tcpVars, cmdVars>>
SpecLogger == LoggerStart /\ [][LoggerNext]_vars

SerializerStart == SerializerInit /\ SingInit /\ PoolOff /\ RunnerOff /\
    CounterOff /\ LazyInit /\ ValidatedOff /\ LoggerInit /\ VendingInit /\
    TcpInit /\ CommandInit
SerializerNext == SerializerStep /\ UNCHANGED <<singVars, poolVars, runVars,
    cntVars, lazyVars, valVars, logVars, vendVars, tcpVars, cmdVars>>
SpecSerializer == SerializerStart /\ [][SerializerNext]_vars

VendingStart == VendingInit /\ SingInit /\ PoolOff /\ RunnerOff /\
    CounterOff /\ LazyInit /\ ValidatedOff /\ LoggerInit /\ SerializerInit /\
    TcpInit /\ CommandInit
VendingNext == VendingStep /\ UNCHANGED <<singVars, poolVars, runVars,
    cntVars, lazyVars, valVars, logVars, serVars, tcpVars, cmdVars>>
SpecVending == VendingStart /\ [][VendingNext]_vars

TcpStart == TcpInit /\ SingInit /\ PoolOff /\ RunnerOff /\ CounterOff /\
    LazyInit /\ ValidatedOff /\ LoggerInit /\ SerializerInit /\
    VendingInit /\ CommandInit
TcpNext == TcpStep /\ UNCHANGED <<singVars, poolVars, runVars, cntVars,
    lazyVars, valVars, logVars, serVars, vendVars, cmdVars>>
SpecTcp == TcpStart /\ [][TcpNext]_vars

CommandStart == CommandInit /\ SingInit /\ PoolOff /\ RunnerOff /\
    CounterOff /\ LazyInit /\ ValidatedOff /\ LoggerInit /\ SerializerInit /\
    VendingInit /\ TcpInit
CommandNext == CommandStep /\ UNCHANGED <<singVars, poolVars, runVars,
    cntVars, lazyVars, valVars, logVars, serVars, vendVars, tcpVars>>
SpecCommand == CommandStart /\ [][CommandNext]_vars

(***************************************************************************)
(* Claims about singleton.py                                               *)
(***************************************************************************)
\* The threads that have finished a call.
SReturned == {t \in Callers : sDone[t] > 0}

\* C1: however the threads that call DatabaseConnection(...) interleave, at most
\* one instance is ever constructed and every call returns that one instance.
C1_SingleInstance ==
    /\ Len(sObjs) <= 1
    /\ \A t \in SReturned : sRet[t].inst = 1
    /\ \A t \in SReturned, u \in SReturned : sRet[t].inst = sRet[u].inst

\* Witness of C1: two threads raced. One has constructed and registered the
\* instance; the other had passed the first check while the key was still absent
\* and now, holding the lock, is about to re-check and find the instance there.
C1_Witness ==
    \E t \in Callers, u \in Callers :
        /\ t # u
        /\ sLocal[t] = 1 /\ t \in SReturned
        /\ sPc[u] = "check2" /\ InClsInstances

Obtained(t, o) ==
    \/ pObj'[t] = o /\ pObj[t] # o
    \/ o \in pHeld'[t] \ pHeld[t]

\* C3: under every interleaving of acquire() and release() calls the number of
\* objects made by the factory, and _created_count, never exceed max_size.
C3_CreatedWithinMax ==
    /\ _created_count <= _max_size
    /\ pFactoryCalls <= _max_size

\* Witness of C3: max_size >= 1 objects have been made and a further acquire(),
\* holding the lock, has just been refused a new one.
C3_Witness ==
    \E t \in PoolThreads :
        /\ _max_size >= 1
        /\ _created_count = _max_size
        /\ pPc[t] = "raise"

\* C4: a thread waiting in acquire() on an empty idle queue, while fewer than
\* max_size objects have been created, can go on to have a new object made by
\* the factory, whatever the timeout setting (the default None included).
C4_AcquireCreates ==
    \A t \in PoolThreads :
        (pPc[t] = "get" /\ _pool = <<>> /\ _created_count < _max_size)
            => ENABLED QueueEmpty(t)

\* C5: with a finite timeout, when the wait on the empty idle queue has expired
\* and max_size objects have already been created, acquire() raises TimeoutError
\* and in doing so calls no factory and changes neither _created_count nor the
\* idle queue.
C5_TimeoutError ==
    [][ \A t \in PoolThreads :
          /\ (pPc[t] = "check" /\ pPc'[t] # "check" /\ _created_count >= _max_size)
                => (pPc'[t] = "raise" /\ _timeout = "finite"
                    /\ pFactoryCalls' = pFactoryCalls
                    /\ _created_count' = _created_count /\ _pool' = _pool)
          /\ (pPc[t] = "raise" /\ pPc'[t] # "raise")
                => (pExc'[t] = "TimeoutError" /\ pHeld'[t] = pHeld[t]
                    /\ pFactoryCalls' = pFactoryCalls
                    /\ _created_count' = _created_count /\ _pool' = _pool) ]_vars

\* Witness of C5: an acquire() has ended with TimeoutError on a pool that had
\* made all of its max_size >= 1 objects.
C5_Witness ==
    \E t \in PoolThreads :
        /\ pPc[t] = "idle" /\ pExc[t] = "TimeoutError"
        /\ _timeout = "finite"
        /\ _max_size >= 1 /\ _created_count = _max_size /\ pFactoryCalls = _max_size

\* C6 as stated: when the block of `with pool.get_object() as obj` is left,
\* normally or by raising, release(obj) is called exactly once, the object is in
\* the idle queue afterwards, and the exception (if any) still propagates.
C6_ReleasedBackToQueue ==
    [][ \A t \in PoolThreads :
          (pPc[t] = "finally" /\ pPc'[t] # "finally") =>
              /\ pClock' = pClock + 1
              /\ \E i \in 1..Len(_pool') : _pool'[i].obj = pObj[t]
              /\ pExc'[t] = pExc[t] ]_vars

\* C6 as amended: when the block is left, normally or by raising, release(obj) is
\* called exactly once and the exception (if any) still propagates; the object is
\* appended to the idle queue unless the queue is full (it already holds
\* max_size > 0 items), in which case the queue is unchanged and the object is
\* dropped.
C6_ReleasedOnce ==
    [][ \A t \in PoolThreads :
          (pPc[t] = "finally" /\ pPc'[t] # "finally") =>
              /\ pClock' = pClock + 1
              /\ pExc'[t] = pExc[t]
              /\ pPc'[t] = "idle"
              /\ IF QueueFull
                 THEN _pool' = _pool
                 ELSE /\ Len(_pool') = Len(_pool) + 1
                      /\ _pool'[Len(_pool')].obj = pObj[t] ]_vars

\* Witness of C6: a with block has been left by raising, the exception is on its
\* way to the caller, and the idle queue holds an object again.
C6_Witness ==
    \E t \in PoolThreads :
        /\ pPc[t] = "idle" /\ pExc[t] = "Exception"
        /\ _pool # <<>>

\* C7: when the idle queue is not empty, acquire() returns the object released
\* earliest of those in the queue, takes it out of the queue and calls no
\* factory; and when the run on a fresh pool is x = acquire(); release(x);
\* acquire() on one thread, the second acquire() returns x and the factory has
\* been called once in total.
C7_Fifo ==
    [][ /\ \A t \in PoolThreads :
              (pPc[t] = "get" /\ pPc'[t] # "get" /\ _pool # <<>>) =>
                  \E i \in 1..Len(_pool) :
                      /\ Obtained(t, _pool[i].obj)
                      /\ \A j \in 1..Len(_pool) :
                            _pool[i].created_at <= _pool[j].created_at
                      /\ Len(_pool') = Len(_pool) - 1
                      /\ \A j \in 1..Len(_pool') : _pool'[j] # _pool[i]
                      /\ pFactoryCalls' = pFactoryCalls
                      /\ _created_count' = _created_count
        /\ pScript'.step = 3 =>
              (pScript'.y = pScript'.x /\ pFactoryCalls' = 1) ]_vars

\* Witness of C7: the run x = acquire(); release(x); acquire() has completed.
C7_Witness == pScript.step = 3 /\ pFactoryCalls = 1

(***************************************************************************)
(* Claims about core/runner.py                                             *)
(***************************************************************************)
\* The cases of main(), read off its inputs.
NoArgument == rArgv = <<>>
NoDot == ~NoArgument /\ \A i \in 1..Len(rArgv[1]) : rArgv[1][i] # "."
ModuleName == SubSeq(rArgv[1], 1, LastDot(rArgv[1]) - 1)
FuncName == SubSeq(rArgv[1], LastDot(rArgv[1]) + 1, Len(rArgv[1]))
ImportFails == ~NoArgument /\ ~NoDot /\ (ModuleName = <<>> \/ ~rImportOk)
AttributeMissing ==
    ~NoArgument /\ ~NoDot /\ ~ImportFails /\ (FuncName = <<>> \/ ~rHasAttr)
Resolved == ~NoArgument /\ ~NoDot /\ ~ImportFails /\ ~AttributeMissing

\* C8: main() exits with status 1 when no argument is given, when the argument
\* has no '.', when the module cannot be imported, when the attribute is missing
\* and when the example function raises an Exception; in the first four cases no
\* example function is invoked; when the function is resolved and returns
\* normally, main() has invoked it exactly once and returns without sys.exit.
C8_MainExit ==
    (rEntry = "main" /\ rPc = "done") =>
        /\ (NoArgument \/ NoDot \/ ImportFails \/ AttributeMissing)
              => (rExit = "exit1" /\ rCalls = 0)
        /\ (Resolved /\ rKind = "raises") => (rExit = "exit1" /\ rCalls = 1)
        /\ (Resolved /\ rKind = "returns") => (rExit = "returned" /\ rCalls = 1)

\* Witness of C8: main() has exited with 1 after the example function, resolved
\* from an argument of the form module.function, raised an Exception.
C8_Witness ==
    /\ rEntry = "main" /\ rPc = "done"
    /\ Resolved /\ rKind = "raises"
    /\ rExit = "exit1" /\ rCalls = 1 /\ rErr = 1

\* Whether run_example was entered and got past the name of the example, with
\* a func that can be called.
RunExampleRan ==
    /\ rKind \in {"returns", "raises", "raises_base"}
    /\ (rEntry = "main" => Resolved)

\* C9: run_example prints the start delimiter line before func runs and the END
\* delimiter line after func has finished, in that order and once each, also when
\* func raises (the exception then propagates, after the END line); when func
\* returns, run_example returns func's value.
C9_Delimiters ==
    RunExampleRan =>
        /\ \E k \in 0..3 : rTrace = SubSeq(<<"start", "func", "END">>, 1, k)
        /\ rPc \in {"except", "done"} =>
              /\ rTrace = <<"start", "func", "END">>
              /\ rKind = "returns" => (rResult = rValue /\ rPending = "none")
              /\ rKind # "returns" => rResult = "unset"
              /\ (rKind # "returns" /\ rEntry = "run_example") =>
                    (rExit = "raised" /\ rPending # "none")

\* Witness of C9: run_example, called directly, has ended with func's exception
\* after printing both lines around func's run.
C9_Witness ==
    /\ rEntry = "run_example" /\ rPc = "done"
    /\ rKind = "raises" /\ rExit = "raised"
    /\ rTrace = <<"start", "func", "END">>

(***************************************************************************)
(* Claims about thread_safety_example                                      *)
(***************************************************************************)
\* The increment() calls that have stored their sum.
Stored(w) ==
    (Iterations - cLeft[w]) - (IF cPc[w] \in {"lock", "read", "write"} THEN 1 ELSE 0)

RECURSIVE SumStored(_)
SumStored(n) == IF n = 0 THEN 0 ELSE Stored(n) + SumStored(n - 1)

\* C10: with a SafeCounter no update is lost under any interleaving: the count
\* is at every moment the number of increments that have stored their sum, and
\* once the N workers have run their K iterations and are joined it is N*K.
C10_SafeCounter ==
    cSafe =>
        /\ count = SumStored(NumWorkers)
        /\ AllJoined => count = NumWorkers * Iterations

\* Witness of C10: all workers of a SafeCounter have run their iterations and
\* are joined, and the count is N*K.
C10_Witness == cSafe /\ AllJoined /\ count = NumWorkers * Iterations

\* The increment() calls a worker has made so far, finished or not.
Called(w) == Iterations - cLeft[w]

RECURSIVE SumCalled(_)
SumCalled(n) == IF n = 0 THEN 0 ELSE Called(n) + SumCalled(n - 1)

\* C15: with an UnsafeCounter the count never exceeds the number of increment()
\* calls made so far, hence never the total of NumWorkers * Iterations calls.
\* (That the final count can fall short of the total is what the witness shows.)
C15_UnsafeCounter ==
    ~cSafe =>
        /\ count <= SumCalled(NumWorkers)
        /\ count <= NumWorkers * Iterations

\* Witness of C15: every thread of an UnsafeCounter run has been joined and the
\* count is smaller than the number of increment() calls: an update was lost.
C15_Witness == ~cSafe /\ AllJoined /\ count < NumWorkers * Iterations

(***************************************************************************)
(* Claims about descriptors.py                                             *)
(***************************************************************************)
\* C11: on each instance the function wrapped by LazyProperty has not been
\* invoked before the attribute is first read, is invoked exactly once by the
\* first read, and a later read of the same instance returns the value the read
\* before it returned (the object the first call made for that instance) and
\* invokes nothing; each instance gets the value computed for itself.
C11_LazyOnce ==
    /\ [](\A o \in Loaders :
             /\ lzCalls[o] = IF lzReads[o] = 0 THEN 0 ELSE 1
             /\ lzReads[o] > 0 => lzRet[o] = <<func(o, 1)>>)
    /\ [][\A o \in Loaders :
             (lzReads[o] > 0 /\ lzReads'[o] # lzReads[o]) =>
                 lzRet'[o] = lzRet[o] /\ lzCalls' = lzCalls]_vars

\* Witness of C11: one loader has been read twice and its function ran once,
\* another has been read once, the third has not been read and nothing ran.
C11_Witness ==
    \E o \in Loaders, q \in Loaders, r \in Loaders :
        /\ lzReads[o] = 2 /\ lzCalls[o] = 1 /\ lzRet[o] = <<func(o, 1)>>
        /\ lzReads[q] = 1 /\ lzCalls[q] = 1 /\ lzRet[q] = <<func(q, 1)>>
        /\ lzReads[r] = 0 /\ lzCalls[r] = 0 /\ lzDict[r] = <<>>

\* C12: an assignment through TypedProperty / RangeValidated that fails the
\* validation raises TypeError / ValueError and changes no stored value; a valid
\* one (the limits included) raises nothing and stores the value on that
\* instance and attribute only; a get returns what the instance has stored (None,
\* 0.0 before any assignment) and stores nothing.
C12_ValidatedSet ==
    [][ /\ (vLast'.cls = "Person" /\ vLast'.op = "set") =>
            IF IsInstance(vLast'.value, expected_type[vLast'.attr])
            THEN /\ vLast'.exc = "none"
                 /\ tpDict' = [tpDict EXCEPT
                                 ![vLast'.obj][SetName(vLast'.attr)] = <<vLast'.value>>]
                 /\ rvDict' = rvDict
            ELSE /\ vLast'.exc = "TypeError"
                 /\ tpDict' = tpDict /\ rvDict' = rvDict
        /\ (vLast'.cls = "Temperature" /\ vLast'.op = "set") =>
            IF min_value <= vLast'.number /\ vLast'.number <= max_value
            THEN /\ vLast'.exc = "none"
                 /\ rvDict' = [rvDict EXCEPT ![vLast'.obj] = <<vLast'.number>>]
                 /\ tpDict' = tpDict
            ELSE /\ vLast'.exc = "ValueError"
                 /\ tpDict' = tpDict /\ rvDict' = rvDict
        /\ (vLast'.cls = "Person" /\ vLast'.op = "get") =>
            /\ tpDict' = tpDict /\ rvDict' = rvDict /\ vLast'.exc = "none"
            /\ vLast'.value = IF tpDict[vLast'.obj][SetName(vLast'.attr)] = <<>>
                              THEN None
                              ELSE tpDict[vLast'.obj][SetName(vLast'.attr)][1]
        /\ (vLast'.cls = "Temperature" /\ vLast'.op = "get") =>
            /\ tpDict' = tpDict /\ rvDict' = rvDict /\ vLast'.exc = "none"
            /\ vLast'.number = IF rvDict[vLast'.obj] = <<>>
                               THEN 0 ELSE rvDict[vLast'.obj][1]
      ]_vars

\* Witness of C12: an assignment to a temperature has just been refused with
\* ValueError while the upper limit, assigned earlier, is still what it stores;
\* one person's age is the 30 assigned to it and the other person's is unset.
C12_Witness ==
    /\ vLast.cls = "Temperature" /\ vLast.op = "set" /\ vLast.exc = "ValueError"
    /\ rvDict[vLast.obj] = <<max_value>> /\ min_value < max_value
    /\ \E p \in Persons, q \in Persons :
          /\ tpDict[p]["_age"] = <<PyValue("int", "30")>>
          /\ tpDict[q]["_age"] = <<>>

(***************************************************************************)
(* Claims about factory_method.py                                          *)
(***************************************************************************)
\* C13: each class statement of a subclass of Serializer registers the new
\* class under its name with "Serializer" removed and lower-cased, so once the
\* module is imported "json", "xml" and "yaml" are keys of the registry;
\* Serializer.create(fmt) makes one new instance of the class registered under
\* fmt.lower() and returns it, or raises ValueError and makes nothing when the
\* registry has no such key; create never changes the registry.
C13_Registry ==
    /\ [](Imported =>
             /\ {<<"json">>, <<"xml">>, <<"yaml">>} \subseteq DOMAIN _registry
             /\ \A k \in DOMAIN _registry : _registry[k] \in 1..Len(srClasses))
    /\ [][ /\ srLast'.op = "class" =>
                /\ srClasses' = Append(srClasses, srLast'.arg)
                /\ Lower(Replace(srLast'.arg)) \in DOMAIN _registry'
                /\ _registry'[Lower(Replace(srLast'.arg))] = Len(srClasses')
                /\ srInstances' = srInstances
           /\ srLast'.op = "create" =>
                /\ _registry' = _registry /\ srClasses' = srClasses
                /\ IF Lower(srLast'.arg) \in DOMAIN _registry
                   THEN /\ srLast'.exc = "none"
                        /\ srInstances' = Append(srInstances, _registry[Lower(srLast'.arg)])
                        /\ srLast'.ret = Len(srInstances')
                   ELSE /\ srLast'.exc = "ValueError"
                        /\ srInstances' = srInstances
         ]_vars

\* Witness of C13: after the import a fourth class was defined and registered
\* under "csv", create("JSON") has made an instance of the first class,
\* JSONSerializer, and the latest create() found no class and raised ValueError.
C13_Witness ==
    /\ Len(srClasses) = 4 /\ srClasses[1] = <<"JSON", "Serializer">>
    /\ <<"csv">> \in DOMAIN _registry /\ _registry[<<"csv">>] = 4
    /\ _registry[<<"json">>] = 1
    /\ srInstances = <<1>>
    /\ srLast.op = "create" /\ srLast.exc = "ValueError"

\* C14: create_logger(t, **kwargs) constructs and returns one FileLogger,
\* ConsoleLogger or DatabaseLogger when t.lower() is "file", "console" or
\* "database" respectively, the result having a log method, and for every other
\* t it raises ValueError and constructs nothing.
C14_CreateLogger ==
    [][ LET t == Lower(lgLast'.logger_type)
            expected == CASE t = <<"file">> -> "FileLogger"
                          [] t = <<"console">> -> "ConsoleLogger"
                          [] t = <<"database">> -> "DatabaseLogger"
                          [] OTHER -> "none"
        IN  IF expected = "none"
            THEN lgLast'.exc = "ValueError" /\ lgHeap' = lgHeap
            ELSE /\ lgLast'.exc = "none"
                 /\ Len(lgHeap') = Len(lgHeap) + 1
                 /\ SubSeq(lgHeap', 1, Len(lgHeap)) = lgHeap
                 /\ lgLast'.ret = Len(lgHeap')
                 /\ lgHeap'[lgLast'.ret].class = expected
                 /\ "log" \in LoggerMethods[lgHeap'[lgLast'.ret].class]
      ]_vars

\* Witness of C14: create_logger("FILE") has returned a FileLogger, the one
\* logger there is, and a later create_logger("syslog") raised ValueError.
C14_Witness ==
    /\ lgLast.logger_type = <<"syslog">> /\ lgLast.exc = "ValueError"
    /\ Len(lgHeap) = 1 /\ lgHeap[1].class = "FileLogger"

(***************************************************************************)
(* Claims about state.py                                                   *)
(***************************************************************************)
\* The messages of the three steps that move a vending machine on.
AcceptedMessages == {"Coin inserted", "Item selected", "Item dispensed"}

\* The messages with which a call is refused.
RefusalMessages ==
    {"Insert coin first", "Coin already inserted", "Select item first",
     "Please wait, dispensing item", "Already dispensing"}

\* The calls of the log that returned the message m.
Returned(m) == {i \in 1..Len(vmLog) : vmLog[i].ret = m}

\* C16: in every sequence of insert_coin / select_item / dispense calls, a
\* dispense() that returns "Item dispensed" comes after an insert_coin() that
\* returned "Coin inserted" and a later select_item() that returned "Item
\* selected", with no "Item dispensed" in between; every call that returns none
\* of the three accepting messages returns a refusal and leaves the state as it
\* was; and no more items are dispensed than coins were accepted.
C16_Vending ==
    /\ \A i \in Returned("Item dispensed") :
          /\ vmLog[i].op = "dispense"
          /\ \E j \in Returned("Coin inserted"), k \in Returned("Item selected") :
                /\ j < k /\ k < i
                /\ vmLog[j].op = "insert_coin" /\ vmLog[k].op = "select_item"
                /\ \A d \in Returned("Item dispensed") : ~(j < d /\ d < i)
    /\ \A i \in 1..Len(vmLog) :
          vmLog[i].ret \notin AcceptedMessages =>
              /\ vmLog[i].ret \in RefusalMessages
              /\ vmLog[i].after = vmLog[i].before
    /\ Cardinality(Returned("Item dispensed")) <= Cardinality(Returned("Coin inserted"))

\* Witness of C16: the run of the demonstration. select_item() was refused,
\* a coin accepted, a second coin refused, the item selected and dispensed.
C16_Witness ==
    /\ Len(vmLog) = 5
    /\ [i \in 1..5 |-> vmLog[i].ret] =
           <<"Insert coin first", "Coin inserted", "Coin already inserted",
             "Item selected", "Item dispensed">>
    /\ _state = "no_coin_state"

\* C17: a connection driven through open / send / close is always "closed" or
\* "established" and no call returns "Invalid state"; send(data) returns
\* "Sent: " + data exactly when the connection is established, and never changes
\* the state; open() on an established and close() on a closed connection leave
\* the state as it was.
C17_Tcp ==
    /\ state \in {"closed", "established"}
    /\ \A i \in 1..Len(tcpLog) :
          /\ tcpLog[i].ret # "Invalid state"
          /\ tcpLog[i].op = "send" =>
                /\ (tcpLog[i].ret = "Sent: " \o tcpLog[i].data)
                       <=> (tcpLog[i].before = "established")
                /\ tcpLog[i].after = tcpLog[i].before
          /\ (tcpLog[i].op = "open" /\ tcpLog[i].before = "established") =>
                tcpLog[i].after = "established"
          /\ (tcpLog[i].op = "close" /\ tcpLog[i].before = "closed") =>
                tcpLog[i].after = "closed"

\* Witness of C17: send() on the closed connection was refused, open()
\* established it, send("Hello") returned "Sent: Hello" and a second open()
\* changed nothing.
C17_Witness ==
    /\ Len(tcpLog) = 4
    /\ [i \in 1..4 |-> tcpLog[i].ret] =
           <<"Connection not open", "Connection established", "Sent: Hello",
             "Already connected">>
    /\ state = "established"

(***************************************************************************)
(* Claims about command.py                                                 *)
(***************************************************************************)
\* The text that the first n commands of _history, applied in order to the
\* empty text of a new editor, produce.
RECURSIVE Replay(_)
Replay(n) ==
    IF n = 0
    THEN <<>>
    ELSE LET cmd == commands[_history[n]] IN
         IF cmd.kind = "insert"
         THEN insert(Replay(n - 1), cmd.text, cmd.position)
         ELSE delete(Replay(n - 1), cmd.position, cmd.length).text

\* C18: after any sequence of execute / undo / redo calls with InsertCommand and
\* DeleteCommand objects whose positions are inside the text when they are
\* executed, the editor's text is what the first _current + 1 commands of
\* _history, applied in order to the initial text, produce.
C18_TextIsReplay == text = Replay(_current + 1)

\* C19: execute(cmd) drops the commands after position _current, so right after
\* it _history is the kept commands followed by cmd, cmd is its last entry and
\* _current is the index of that entry; a redo() that comes next returns False
\* and changes neither the editor nor the history.
C19_ExecuteDiscards ==
    [][ /\ chLast'.op = "execute" =>
              /\ _history' = Append(SubSeq(_history, 1, _current + 1), chLast'.cmd)
              /\ _history'[Len(_history')] = chLast'.cmd
              /\ _current' = Len(_history') - 1
        /\ (chLast.op = "execute" /\ chLast'.op = "redo") =>
              /\ chLast'.ret = "False"
              /\ text' = text /\ commands' = commands
              /\ _history' = _history /\ _current' = _current
      ]_vars

\* Witness of C19: an execute() has just run after an undo(): a command object
\* that was executed earlier is no longer in the history, whose last entry is
\* the command just executed, at index _current.
C19_Witness ==
    /\ chLast.op = "execute"
    /\ \E c \in 1..Len(commands) : \A i \in 1..Len(_history) : _history[i] # c
    /\ _history[Len(_history)] = chLast.cmd
    /\ _current = Len(_history) - 1

\* C20: _current stays between -1 and len(_history) - 1; undo() at -1 and redo()
\* at len(_history) - 1 return False and leave the text, _history and _current
\* as they were; anywhere else they return True and move _current down,
\* respectively up, by exactly one.
C20_CurrentInRange ==
    /\ [](-1 <= _current /\ _current <= Len(_history) - 1)
    /\ [][ /\ chLast'.op = "undo" =>
                 IF _current = -1
                 THEN /\ chLast'.ret = "False"
                      /\ text' = text /\ _history' = _history /\ _current' = _current
                 ELSE /\ chLast'.ret = "True"
                      /\ _current' = _current - 1
           /\ chLast'.op = "redo" =>
                 IF _current = Len(_history) - 1
                 THEN /\ chLast'.ret = "False"
                      /\ text' = text /\ _history' = _history /\ _current' = _current
                 ELSE /\ chLast'.ret = "True"
                      /\ _current' = _current + 1
         ]_vars

\* Witness of C20: every command of a history of two has been undone and a
\* further undo() has been refused.
C20_Witness ==
    /\ chLast.op = "undo" /\ chLast.ret = "False"
    /\ _current = -1 /\ Len(_history) = 2 /\ text = <<>>

====
